---- MODULE Spec2Model ----
(***************************************************************************)
(* State-machine model of the SecureChat relay, src/backend/main.py:       *)
(* the ConnectionManager (registry, presence broadcast, push), the         *)
(* direct-message and group endpoints and the websocket handler.           *)
(*                                                                         *)
(* Scheduling: asyncio, one task per websocket handler and per HTTP        *)
(* request.  The database driver is blocking, so a task only yields inside *)
(* `await websocket.send_json(...)`, `await websocket.receive_json()` and  *)
(* `await websocket.accept()`.  Every action below is therefore one run of *)
(* a task from one suspension point to the next.  A task suspended in the  *)
(* middle of nested calls keeps its call stack in stack[t]: the last frame *)
(* is the pending send_json, below it the broadcast_status loops that are  *)
(* waiting for it.  A websocket is an ordered channel: the send_json calls *)
(* made on one websocket complete in the order in which they were made.    *)
(***************************************************************************)
EXTENDS Integers, Sequences, FiniteSets, TLC

\* ------------------------------------------------------------------ bounds
Users == {"A", "B", "C"}
\* the <<sender, recipient>> pairs the clients use: A and B write to each
\* other, C writes to A and to B
DirectPairs == {<<"A", "B">>, <<"B", "A">>, <<"C", "A">>, <<"C", "B">>}
\* the two copies of a message: encrypted for the recipient, for the sender
ForRecipient == {"ctR"}
ForSender == {"ctS"}
DeleteModes == {"never"}
MaxHttp == 1
\* The model explores four families of runs, each with its own budget of
\* operations: sessions (two connections over a one-message history), store
\* (one connection over a two-message history with a delete), groups
\* (two connections, one group creation and one group message) and the
\* reconnect race (B and C connect, then A connects twice; one websocket
\* closes; two messages are sent to A).
SessConns == 2
SessMsgs == 1
SessEvents == 1
SessDeletes == 0
StoreConns == 1
StoreMsgs == 2
StoreEvents == 1
StoreDeletes == 1
GroupConns == 2
GroupCreates == 1
GroupMsgs == 1
RaceConns == 4
RaceMsgs == 2
RaceCloses == 1
MaxConns ==
    LET m == IF SessConns > StoreConns THEN SessConns ELSE StoreConns
        n == IF GroupConns > m THEN GroupConns ELSE m
    IN  IF RaceConns > n THEN RaceConns ELSE n
\* who may open the c-th websocket: anyone, or the users of the reconnect race
AnyClient == [c \in 1..MaxConns |-> Users]
RaceClients ==
    [c \in 1..MaxConns |-> IF c = 1 THEN {"B"} ELSE IF c = 2 THEN {"C"} ELSE {"A"}]
\* a budget: the operations left (conns, closes, msgs, events, deletes,
\* groups, gmsgs), who opens the websockets and who the messages go to
Budgets ==
    {[conns |-> SessConns, closes |-> SessConns, msgs |-> SessMsgs,
      events |-> SessEvents, deletes |-> SessDeletes, groups |-> 0, gmsgs |-> 0,
      clients |-> AnyClient, recipients |-> Users],
     [conns |-> StoreConns, closes |-> StoreConns, msgs |-> StoreMsgs,
      events |-> StoreEvents, deletes |-> StoreDeletes, groups |-> 0, gmsgs |-> 0,
      clients |-> AnyClient, recipients |-> Users],
     [conns |-> GroupConns, closes |-> GroupConns, msgs |-> 0,
      events |-> 0, deletes |-> 0, groups |-> GroupCreates, gmsgs |-> GroupMsgs,
      clients |-> AnyClient, recipients |-> Users],
     [conns |-> RaceConns, closes |-> RaceCloses, msgs |-> RaceMsgs,
      events |-> 0, deletes |-> 0, groups |-> 0, gmsgs |-> 0,
      clients |-> RaceClients, recipients |-> {"A"}]}

\* the requests to POST /api/groups the clients make: the creator, the
\* member_ids list and the users encrypted_keys has an entry for
GroupCreators == {"A"}
MemberLists == {<<"B", "C">>, <<"A", "B", "B">>}
KeySets == {{"A", "B"}, {"B", "C"}, {"A", "B", "C"}}
GroupNames == {"n"}
GroupKeys == {"gk"}
GroupCiphertexts == {"ctG"}

\* reply_to_id: Optional[int] = None; message ids start at 1
NULL == 0

Conns == 1..MaxConns
Https == {0 - h : h \in 1..MaxHttp}
Tasks == Conns \cup Https

VARIABLES
    active_connections, \* ConnectionManager.active_connections: user_id -> websocket
    is_online,          \* users.is_online column
    messages,           \* messages table: id -> row
    blocked_users,      \* blocked_users table: <<user_id, blocked_user_id>>
    owner,              \* owner[c]: the user_id of the c-th accepted websocket
    client,             \* client[c]: "open" or "closed", the peer side of websocket c
    received,           \* received[c]: the events sent on websocket c, in order
    pc,                 \* pc[t]: where task t is suspended
    data,               \* data[c]: what receive_json has returned to handler c so
                        \* far; the last element is the handler's local `data`
    stack,              \* stack[t]: the pending calls of task t
    sending,            \* sending[c]: the tasks inside send_json on websocket c,
                        \* in the order they called it
    resp,               \* resp[h]: the last POST /api/messages of HTTP task h, its
                        \* sender and recipient, and the response
    chat_groups,        \* chat_groups table (committed): group_id -> row
    group_members,      \* group_members table (committed): rows in insertion order
    group_messages,     \* group_messages table: id -> row
    group_calls,        \* history: the POST /api/groups requests, by group_id
    inserted,           \* history: every row ever inserted, by id
    disconnect_runs,    \* history: runs of disconnect() on account of websocket c
    online_attempts,    \* history: user_online pushes started by connect of c
    connect_contacts,   \* history: the contacts the connect of c queried
    budget              \* the operations this run may still start

vars == <<active_connections, is_online, messages, blocked_users, owner, client,
          received, pc, data, stack, sending, resp, chat_groups, group_members, group_messages,
          group_calls, inserted, disconnect_runs, online_attempts, connect_contacts,
          budget>>

\* ----------------------------------------------------------------- helpers
EmptyMap == [x \in {} |-> NULL]

Top(stk) == stk[Len(stk)]
Pop(stk) == SubSeq(stk, 1, Len(stk) - 1)

Perms(S) == {s \in [1..Cardinality(S) -> S] :
                \A i, j \in 1..Cardinality(S) : i # j => s[i] # s[j]}

\* ------------------------------------------------------ ConnectionManager
\* a registration that keeps the entry a user already has (setdefault)
Register_keep_first(ac, user_id, ws) ==
    [u \in DOMAIN ac \cup {user_id} |-> IF u \in DOMAIN ac THEN ac[u] ELSE ws]

\* a connect that does not record the websocket
Register_nothing(ac, user_id, ws) == ac

\* self.active_connections[user_id] = websocket
Register(ac, user_id, ws) ==
    [u \in DOMAIN ac \cup {user_id} |-> IF u = user_id THEN ws ELSE ac[u]]

\* a disconnect that leaves the registry as it is
Unregister_nothing(ac, user_id) == ac

\* if user_id in self.active_connections: del self.active_connections[user_id]
Unregister(ac, user_id) ==
    [u \in DOMAIN ac \ {user_id} |-> ac[u]]

\* a contact query that returns every other user
Contacts_everyone(msgs, user_id) == Users \ {user_id}

\* SELECT DISTINCT CASE WHEN sender_id = u THEN recipient_id ELSE sender_id END
\* FROM messages WHERE sender_id = u OR recipient_id = u
Contacts(msgs, user_id) ==
    {IF msgs[i].sender_id = user_id THEN msgs[i].recipient_id ELSE msgs[i].sender_id :
        i \in {j \in DOMAIN msgs : msgs[j].sender_id = user_id \/ msgs[j].recipient_id = user_id}}

StatusEvent(user_id, online) ==
    [type |-> IF online THEN "user_online" ELSE "user_offline",
     data |-> [user_id |-> user_id]]

SendFrame(fn, user_id, ws, message, at) ==
    [fn |-> fn, user_id |-> user_id, ws |-> ws, message |-> message, at |-> at]

BroadcastFrame(message, contacts) ==
    [fn |-> "broadcast_status", message |-> message, contacts |-> contacts]

\* the loop of send_group_message over the members it selected
FanoutFrame(message, members) ==
    [fn |-> "send_group_message", message |-> message, contacts |-> members]

\* the row an INSERT INTO group_members creates
MemberRow(group_id, user_id, encrypted_group_key) ==
    [group_id |-> group_id, user_id |-> user_id,
     encrypted_group_key |-> encrypted_group_key]

\* create_group between its inserts: member_ids are the members the loop has
\* yet to visit, rows the group_members rows of the open transaction; unique
\* says whether group_members rejects a second row for one (group, user)
CreateFrame(group_id, name, user_id, member_ids, encrypted_keys, rows, unique) ==
    [fn |-> "create_group", group_id |-> group_id, name |-> name,
     user_id |-> user_id, member_ids |-> member_ids,
     encrypted_keys |-> encrypted_keys, rows |-> rows, unique |-> unique,
     failed |-> FALSE]

GroupAddedEvent(group_id, name) ==
    [type |-> "group_added", data |-> [group_id |-> group_id, name |-> name]]

GroupMessageEvent(group_id, message_id) ==
    [type |-> "group_message", data |-> [group_id |-> group_id, message_id |-> message_id]]

\* if member_id in group.encrypted_keys and member_id != user_id
Admitted(encrypted_keys, member_id, user_id) ==
    member_id \in DOMAIN encrypted_keys /\ member_id # user_id

\* a push that falls back on the websocket the user registered last when
\* the registry has no entry
send_to_user_last_known(stk, ac, user_id, message, at) ==
    IF user_id \in DOMAIN ac
    THEN Append(stk, SendFrame("send_to_user", user_id, ac[user_id], message, at))
    ELSE IF \E c \in DOMAIN owner : owner[c] = user_id
         THEN Append(stk, SendFrame("send_to_user", user_id,
                                    CHOOSE c \in DOMAIN owner :
                                        owner[c] = user_id /\
                                        \A d \in DOMAIN owner : owner[d] = user_id => d <= c,
                                    message, at))
         ELSE stk

\* send_to_user up to its await: look the user up and start send_json on the
\* websocket found; without an entry the call returns at once.
send_to_user(stk, ac, user_id, message, at) ==
    IF user_id \in DOMAIN ac
    THEN Append(stk, SendFrame("send_to_user", user_id, ac[user_id], message, at))
    ELSE stk

\* Runs the task until its next suspension: the loop on top of the stack
\* (broadcast_status, send_group_message) calls send_to_user for each contact
\* in turn; a loop that has no contact left returns to its caller.  The loop
\* of create_group inserts a row for each admitted member before it calls
\* send_to_user, and stays on the stack when it has ended (no member left, or
\* an insert was rejected) for Resume to commit or abandon the transaction.
RECURSIVE Run(_, _, _)
Run(stk, ac, at) ==
    IF stk = <<>> THEN stk
    ELSE IF Top(stk).fn = "create_group" THEN
        LET f == Top(stk)
        IN  IF f.failed \/ f.member_ids = <<>> THEN stk
            ELSE LET m    == Head(f.member_ids)
                     rest == [f EXCEPT !.member_ids = Tail(@)]
                 IN  IF ~Admitted(f.encrypted_keys, m, f.user_id)
                     THEN Run(Append(Pop(stk), rest), ac, at)
                     ELSE IF f.unique /\ \E i \in DOMAIN f.rows : f.rows[i].user_id = m
                     THEN Append(Pop(stk), [f EXCEPT !.failed = TRUE])
                     ELSE LET next == Append(Pop(stk),
                                         [rest EXCEPT !.rows = Append(@,
                                             MemberRow(f.group_id, m, f.encrypted_keys[m]))])
                              sent == send_to_user(next, ac, m,
                                          GroupAddedEvent(f.group_id, f.name), at)
                          IN  IF sent # next THEN sent ELSE Run(next, ac, at)
    ELSE IF Top(stk).fn \notin {"broadcast_status", "send_group_message"} THEN stk
    ELSE IF Top(stk).contacts = <<>> THEN Run(Pop(stk), ac, at)
    ELSE LET f    == Top(stk)
             next == Append(Pop(stk), [f EXCEPT !.contacts = Tail(@)])
             sent == send_to_user(next, ac, Head(f.contacts), f.message, at)
         IN  IF sent # next THEN sent ELSE Run(next, ac, at)

\* broadcast_status(user_id, is_online) called with the stack stk below it;
\* order is the order in which the query returned the contacts.
broadcast_status(stk, ac, user_id, online, order, at) ==
    Run(Append(stk, BroadcastFrame(StatusEvent(user_id, online), order)), ac, at)

\* ---------------------------------------------------------- message store
\* the block check with its two parameters exchanged
IsBlocked_reversed(blocked, sender_id, recipient_id) ==
    <<sender_id, recipient_id>> \in blocked

\* SELECT 1 FROM blocked_users WHERE user_id = recipient AND blocked_user_id = sender
IsBlocked(blocked, sender_id, recipient_id) ==
    <<recipient_id, sender_id>> \in blocked

\* an UPDATE without the sender_id condition
MarkRead_any_sender(msgs, sender_id, recipient_id) ==
    [i \in DOMAIN msgs |->
        IF msgs[i].recipient_id = recipient_id /\ msgs[i].is_read = FALSE
        THEN [msgs[i] EXCEPT !.is_read = TRUE]
        ELSE msgs[i]]

\* an UPDATE that flips is_read instead of setting it
MarkRead_toggle(msgs, sender_id, recipient_id) ==
    [i \in DOMAIN msgs |->
        IF msgs[i].sender_id = sender_id /\ msgs[i].recipient_id = recipient_id
        THEN [msgs[i] EXCEPT !.is_read = ~@]
        ELSE msgs[i]]

\* an UPDATE that marks the whole conversation, both directions
MarkRead_both_directions(msgs, sender_id, recipient_id) ==
    [i \in DOMAIN msgs |->
        IF \/ msgs[i].sender_id = sender_id /\ msgs[i].recipient_id = recipient_id
           \/ msgs[i].sender_id = recipient_id /\ msgs[i].recipient_id = sender_id
        THEN [msgs[i] EXCEPT !.is_read = TRUE]
        ELSE msgs[i]]

\* UPDATE messages SET is_read = TRUE
\* WHERE sender_id = s AND recipient_id = r AND is_read = FALSE
MarkRead(msgs, sender_id, recipient_id) ==
    [i \in DOMAIN msgs |->
        IF /\ msgs[i].sender_id = sender_id
           /\ msgs[i].recipient_id = recipient_id
           /\ msgs[i].is_read = FALSE
        THEN [msgs[i] EXCEPT !.is_read = TRUE]
        ELSE msgs[i]]

\* DELETE FROM messages WHERE (sender = a AND recipient = b) OR (sender = b AND recipient = a)
DeleteConversation(msgs, a, b) ==
    [i \in {j \in DOMAIN msgs :
              ~ \/ (msgs[j].sender_id = a /\ msgs[j].recipient_id = b)
                \/ (msgs[j].sender_id = b /\ msgs[j].recipient_id = a)} |-> msgs[i]]

\* the row the INSERT of send_message creates
NewRow(sender_id, recipient_id, ec, efs, reply_to_id, delete_mode, created_at) ==
    [sender_id |-> sender_id, recipient_id |-> recipient_id,
     encrypted_content |-> ec, encrypted_for_sender |-> efs,
     reply_to_id |-> reply_to_id, delete_mode |-> delete_mode,
     is_read |-> FALSE, created_at |-> created_at]

\* an event that carries the sender's copy of the message
NewMessageEvent_sender_copy(message_id, sender_id, ec, efs) ==
    [type |-> "new_message",
     data |-> [message_id |-> message_id, sender_id |-> sender_id,
               encrypted_content |-> efs]]

\* the event send_message pushes to the recipient
NewMessageEvent(message_id, sender_id, ec, efs) ==
    [type |-> "new_message",
     data |-> [message_id |-> message_id, sender_id |-> sender_id,
               encrypted_content |-> ec]]

\* msg['created_at'].isoformat()
isoformat(created_at) == <<"iso", created_at>>

\* a row of get_messages: m.* with the three columns of the LEFT JOIN on
\* m.reply_to_id = r.id, which are NULL when no stored row has that id
Joined(msgs, id) ==
    LET m == msgs[id]
        found == m.reply_to_id \in DOMAIN msgs
    IN  [id |-> id, sender_id |-> m.sender_id, recipient_id |-> m.recipient_id,
         encrypted_content |-> m.encrypted_content,
         encrypted_for_sender |-> m.encrypted_for_sender,
         reply_to_id |-> m.reply_to_id, delete_mode |-> m.delete_mode,
         is_read |-> m.is_read, created_at |-> isoformat(m.created_at),
         reply_encrypted_content |->
             IF found THEN msgs[m.reply_to_id].encrypted_content ELSE NULL,
         reply_encrypted_for_sender |->
             IF found THEN msgs[m.reply_to_id].encrypted_for_sender ELSE NULL,
         reply_sender_id |->
             IF found THEN msgs[m.reply_to_id].sender_id ELSE NULL]

\* a fetch that only selects the rows the caller sent
get_messages_sent_only(msgs, contact_id, user_id) ==
    LET ids == {i \in DOMAIN msgs :
                   msgs[i].sender_id = user_id /\ msgs[i].recipient_id = contact_id}
    IN  {[k \in DOMAIN p |-> Joined(msgs, p[k])] :
            p \in {q \in Perms(ids) :
                      \A j, k \in DOMAIN q :
                          j < k => msgs[q[j]].created_at <= msgs[q[k]].created_at}}

\* GET /api/messages/{contact_id}: the rows between the two users in either
\* direction, ORDER BY m.created_at ASC.  The result is the set of listings
\* the query may return: rows with equal created_at come in any order.
get_messages(msgs, contact_id, user_id) ==
    LET ids == {i \in DOMAIN msgs :
                   \/ msgs[i].sender_id = user_id /\ msgs[i].recipient_id = contact_id
                   \/ msgs[i].sender_id = contact_id /\ msgs[i].recipient_id = user_id}
    IN  {[k \in DOMAIN p |-> Joined(msgs, p[k])] :
            p \in {q \in Perms(ids) :
                      \A j, k \in DOMAIN q :
                          j < k => msgs[q[j]].created_at <= msgs[q[k]].created_at}}

\* created_at DEFAULT NOW(): not before the newest row
LastCreatedAt == IF inserted = <<>> THEN 0 ELSE inserted[Len(inserted)].created_at

\* ------------------------------------------------------------------- Init
NoResp == [status |-> "none", message_id |-> NULL, sender_id |-> "", recipient_id |-> ""]

Init ==
    /\ active_connections = EmptyMap
    /\ is_online = [u \in Users |-> FALSE]
    /\ messages = EmptyMap
    /\ blocked_users = {<<"B", "C">>}
    /\ owner = <<>>
    /\ client = <<>>
    /\ received = [c \in Conns |-> <<>>]
    /\ pc = [t \in Tasks |-> IF t \in Conns THEN "connecting" ELSE "idle"]
    /\ data = [c \in Conns |-> <<>>]
    /\ stack = [t \in Tasks |-> <<>>]
    /\ sending = [c \in Conns |-> <<>>]
    /\ resp = [h \in Https |-> NoResp]
    /\ chat_groups = EmptyMap
    /\ group_members = <<>>
    /\ group_messages = <<>>
    /\ group_calls = <<>>
    /\ inserted = <<>>
    /\ disconnect_runs = [c \in Conns |-> 0]
    /\ online_attempts = [c \in Conns |-> <<>>]
    /\ connect_contacts = [c \in Conns |-> {}]
    /\ budget \in Budgets

\* ------------------------------------------------------- task bookkeeping
\* where a task continues when the call it was suspended in has returned
After(label) ==
    CASE label = "connect"      -> "receive"
      [] label = "ping"         -> "receive"
      [] label = "read"         -> "receive"
      [] label = "disconnect"   -> "closed"
      [] label = "send_message" -> "idle"
      [] label = "create_group" -> "idle"
      [] label = "send_group_message" -> "idle"

\* a send_to_user without its try/except
Caught_nothing(fn) == FALSE

\* the bare `except:` of send_to_user catches whatever its send_json raises;
\* the handler's own send_json of the pong has no such guard
Caught(fn) == fn = "send_to_user"

\* The send queues once task t has left the send_json it was in and, with
\* stk as its pending calls, has called the next one: a websocket carries
\* the frames in the order in which send_json was called.
Enqueue(q, t, stk) ==
    [w \in Conns |->
        LET others == SelectSeq(q[w], LAMBDA x : x # t)
        IN  IF stk # <<>> /\ Top(stk).ws = w THEN Append(others, t) ELSE others]

\* Task t has run up to its next suspension with stk as its pending calls
\* (or to the end of the call it was in, when stk is empty).
\* A create_group whose loop has ended commits its transaction (the group
\* row and the member rows become visible together) unless an insert failed.
Resume(t, label, stk) ==
    LET ended  == stk # <<>> /\ Top(stk).fn = "create_group"
        commit == ended /\ ~Top(stk).failed
        rest   == IF ended THEN Pop(stk) ELSE stk
    IN  /\ stack' = [stack EXCEPT ![t] = rest]
        /\ sending' = Enqueue(sending, t, rest)
        /\ pc' = [pc EXCEPT ![t] = IF rest = <<>> THEN After(label) ELSE label]
        /\ resp' = IF t \notin Https THEN resp
                   ELSE IF label # "send_message" THEN [resp EXCEPT ![t] = NoResp]
                   ELSE IF rest = <<>> THEN [resp EXCEPT ![t].status = "ok"]
                   ELSE resp
        /\ online_attempts' =
               IF rest # <<>> /\ Top(rest).message.type = "user_online"
               THEN [online_attempts EXCEPT ![t] = Append(@, Top(rest).user_id)]
               ELSE online_attempts
        /\ chat_groups' =
               IF commit
               THEN [g \in DOMAIN chat_groups \cup {Top(stk).group_id} |->
                        IF g = Top(stk).group_id
                        THEN [name |-> Top(stk).name, created_by |-> Top(stk).user_id,
                              avatar |-> NULL]
                        ELSE chat_groups[g]]
               ELSE chat_groups
        /\ group_members' = IF commit THEN group_members \o Top(stk).rows
                            ELSE group_members

\* ConnectionManager.disconnect(user_id), called by task t with stk below it,
\* on account of websocket ws
disconnect(t, label, stk, user_id, ws) ==
    /\ active_connections' = Unregister(active_connections, user_id)
    /\ is_online' = [is_online EXCEPT ![user_id] = FALSE]
    /\ disconnect_runs' = [disconnect_runs EXCEPT ![ws] = @ + 1]
    /\ \E order \in Perms(Contacts(messages, user_id)) :
           Resume(t, label,
                  broadcast_status(stk, active_connections', user_id, FALSE,
                                   order, Len(owner)))

\* ---------------------------------------------------------------- actions
\* websocket_endpoint up to the first suspension after accept():
\* ConnectionManager.connect registers, sets the flag and starts the broadcast
Connect(c, u) ==
    /\ c = Len(owner) + 1
    /\ pc[c] = "connecting"
    /\ budget.conns > 0
    /\ u \in budget.clients[c]
    /\ budget' = [budget EXCEPT !.conns = @ - 1]
    /\ owner' = Append(owner, u)
    /\ client' = Append(client, "open")
    /\ active_connections' = Register(active_connections, u, c)
    /\ is_online' = [is_online EXCEPT ![u] = TRUE]
    /\ connect_contacts' = [connect_contacts EXCEPT ![c] = Contacts(messages, u)]
    /\ \E order \in Perms(Contacts(messages, u)) :
           Resume(c, "connect",
                  broadcast_status(<<>>, active_connections', u, TRUE, order, c))
    /\ UNCHANGED <<group_messages, group_calls,
                   data, messages, blocked_users, received, inserted, disconnect_runs>>

\* the peer closes websocket c, or its channel breaks
ClientClose(c) ==
    /\ c \in DOMAIN client
    /\ client[c] = "open"
    /\ budget.closes > 0
    /\ budget' = [budget EXCEPT !.closes = @ - 1]
    /\ client' = [client EXCEPT ![c] = "closed"]
    /\ UNCHANGED <<chat_groups, group_members, group_messages, group_calls,
                   data, active_connections, is_online, messages, blocked_users, owner,
                   received, pc, stack, sending, resp, inserted, disconnect_runs,
                   online_attempts, connect_contacts>>

\* a pending send_json on an open websocket completes; the frames of one
\* websocket go out in the order of the calls
SendOk(t) ==
    /\ stack[t] # <<>>
    /\ client[Top(stack[t]).ws] = "open"
    /\ Head(sending[Top(stack[t]).ws]) = t
    /\ received' = [received EXCEPT ![Top(stack[t]).ws] = Append(@, Top(stack[t]).message)]
    /\ Resume(t, pc[t], Run(Pop(stack[t]), active_connections, Len(owner)))
    /\ UNCHANGED <<group_messages, group_calls,
                   data, active_connections, is_online, messages, blocked_users, owner,
                   client, inserted, disconnect_runs, connect_contacts, budget>>

\* a pending send_json of send_to_user fails: except -> self.disconnect(user_id)
SendFail(t) ==
    /\ stack[t] # <<>>
    /\ client[Top(stack[t]).ws] = "closed"
    /\ Caught(Top(stack[t]).fn)
    /\ disconnect(t, pc[t], Pop(stack[t]), Top(stack[t]).user_id, Top(stack[t]).ws)
    /\ UNCHANGED <<group_messages, group_calls,
                   data, messages, blocked_users, owner, client, received, inserted,
                   connect_contacts, budget>>

\* a pending send_json outside send_to_user fails inside the handler's try
\* with WebSocketDisconnect: except WebSocketDisconnect -> manager.disconnect
SendRaiseDisconnect(c) ==
    /\ c \in Conns
    /\ stack[c] # <<>>
    /\ client[Top(stack[c]).ws] = "closed"
    /\ ~Caught(Top(stack[c]).fn)
    /\ pc[c] \in {"ping", "read"}
    /\ disconnect(c, "disconnect", <<>>, owner[c], c)
    /\ UNCHANGED <<group_messages, group_calls,
                   data, messages, blocked_users, owner, client, received, inserted,
                   connect_contacts, budget>>

\* a pending send_json outside send_to_user fails with an exception nothing
\* catches: the task ends (a handler without running disconnect, a request
\* with a server error)
SendRaiseUncaught(t) ==
    /\ stack[t] # <<>>
    /\ client[Top(stack[t]).ws] = "closed"
    /\ ~Caught(Top(stack[t]).fn)
    /\ stack' = [stack EXCEPT ![t] = <<>>]
    /\ sending' = Enqueue(sending, t, <<>>)
    /\ pc' = [pc EXCEPT ![t] = IF t \in Conns THEN "crashed" ELSE "idle"]
    /\ resp' = IF t \in Https THEN [resp EXCEPT ![t].status = "500"] ELSE resp
    /\ UNCHANGED <<chat_groups, group_members, group_messages, group_calls,
                   data, active_connections, is_online, messages, blocked_users, owner,
                   client, received, inserted, disconnect_runs, online_attempts,
                   connect_contacts, budget>>

\* receive_json returns {"type": "ping"}: await websocket.send_json(pong)
ReceivePing(c) ==
    /\ pc[c] = "receive"
    /\ client[c] = "open"
    /\ budget.events > 0
    /\ budget' = [budget EXCEPT !.events = @ - 1]
    /\ data' = [data EXCEPT ![c] = Append(@, [type |-> "ping"])]
    /\ Resume(c, "ping",
              <<SendFrame("send_json", owner[c], c, [type |-> "pong"], Len(owner))>>)
    /\ UNCHANGED <<group_messages, group_calls,
                   active_connections, is_online, messages, blocked_users, owner,
                   client, received, inserted, disconnect_runs, connect_contacts>>

\* receive_json returns {"type": "read", "data": {"sender_id": s}}
ReceiveRead(c, s) ==
    /\ pc[c] = "receive"
    /\ client[c] = "open"
    /\ budget.events > 0
    /\ budget' = [budget EXCEPT !.events = @ - 1]
    /\ data' = [data EXCEPT ![c] = Append(@, [type |-> "read", data |-> [sender_id |-> s]])]
    /\ messages' = MarkRead(messages, s, owner[c])
    /\ Resume(c, "read",
              send_to_user(<<>>, active_connections, s,
                           [type |-> "messages_read", data |-> [reader_id |-> owner[c]]],
                           Len(owner)))
    /\ UNCHANGED <<group_messages, group_calls,
                   active_connections, is_online, blocked_users, owner, client,
                   received, inserted, disconnect_runs, connect_contacts>>

\* the client sends a frame that is not a JSON object: receive_json raises
\* JSONDecodeError, or data.get raises AttributeError.  The handler only
\* catches WebSocketDisconnect, so it ends without manager.disconnect and the
\* server closes the channel.
ReceiveMalformed(c) ==
    /\ pc[c] = "receive"
    /\ client[c] = "open"
    /\ budget.events > 0
    /\ budget' = [budget EXCEPT !.events = @ - 1]
    /\ pc' = [pc EXCEPT ![c] = "crashed"]
    /\ client' = [client EXCEPT ![c] = "closed"]
    /\ UNCHANGED <<chat_groups, group_members, group_messages, group_calls, data,
                   active_connections, is_online, messages, blocked_users, owner,
                   received, stack, sending, resp, inserted, disconnect_runs,
                   online_attempts, connect_contacts>>

\* receive_json raises WebSocketDisconnect: await manager.disconnect(user_id)
ReceiveDisconnect(c) ==
    /\ pc[c] = "receive"
    /\ client[c] = "closed"
    /\ disconnect(c, "disconnect", <<>>, owner[c], c)
    /\ UNCHANGED <<group_messages, group_calls,
                   data, messages, blocked_users, owner, client, received, inserted,
                   connect_contacts, budget>>

\* POST /api/messages when the recipient blocks the sender: 403 before any write
SendMessageBlocked(h, sender_id, recipient_id) ==
    /\ pc[h] = "idle"
    /\ IsBlocked(blocked_users, sender_id, recipient_id)
    /\ resp' = [resp EXCEPT ![h] = [status |-> "403", message_id |-> NULL,
                                    sender_id |-> sender_id,
                                    recipient_id |-> recipient_id]]
    /\ UNCHANGED <<chat_groups, group_members, group_messages, group_calls,
                   data, active_connections, is_online, messages, blocked_users, owner,
                   client, received, pc, stack, sending, inserted, disconnect_runs,
                   online_attempts, connect_contacts, budget>>

\* POST /api/messages otherwise: INSERT, commit, then push to the recipient
SendMessage(h, sender_id, recipient_id, ec, efs, reply_to_id, delete_mode, created_at) ==
    /\ pc[h] = "idle"
    /\ budget.msgs > 0
    /\ recipient_id \in budget.recipients
    /\ budget' = [budget EXCEPT !.msgs = @ - 1]
    /\ ~IsBlocked(blocked_users, sender_id, recipient_id)
    /\ LET message_id == Len(inserted) + 1
           row == NewRow(sender_id, recipient_id, ec, efs, reply_to_id,
                         delete_mode, created_at)
           stk == send_to_user(<<>>, active_connections, recipient_id,
                               NewMessageEvent(message_id, sender_id, ec, efs),
                               Len(owner))
       IN  /\ messages' = [i \in DOMAIN messages \cup {message_id} |->
                              IF i = message_id THEN row ELSE messages[i]]
           /\ inserted' = Append(inserted, row)
           /\ stack' = [stack EXCEPT ![h] = stk]
           /\ sending' = Enqueue(sending, h, stk)
           /\ pc' = [pc EXCEPT ![h] = IF stk = <<>> THEN "idle" ELSE "send_message"]
           /\ resp' = [resp EXCEPT ![h] =
                          [status |-> IF stk = <<>> THEN "ok" ELSE "pending",
                           message_id |-> message_id, sender_id |-> sender_id,
                           recipient_id |-> recipient_id]]
    /\ UNCHANGED <<chat_groups, group_members, group_messages, group_calls,
                   data, active_connections, is_online, blocked_users, owner, client,
                   received, disconnect_runs, online_attempts, connect_contacts>>

\* DELETE /api/messages/{contact_id}
DeleteMessages(user_id, contact_id) ==
    /\ budget.deletes > 0
    /\ budget' = [budget EXCEPT !.deletes = @ - 1]
    /\ messages' = DeleteConversation(messages, user_id, contact_id)
    /\ UNCHANGED <<chat_groups, group_members, group_messages, group_calls,
                   data, active_connections, is_online, blocked_users, owner, client,
                   received, pc, stack, sending, resp, inserted, disconnect_runs,
                   online_attempts, connect_contacts>>

\* a selection without the user_id != sender condition
MembersExcept_with_sender(members, group_id, user_id) ==
    SelectSeq(members, LAMBDA r : r.group_id = group_id)

\* the rows SELECT user_id FROM group_members WHERE group_id = g AND
\* user_id != u returns
MembersExcept(members, group_id, user_id) ==
    SelectSeq(members, LAMBDA r : r.group_id = group_id /\ r.user_id # user_id)

\* the users of the rows of a result set, read in the order p
InOrder(rows, p) == [i \in DOMAIN rows |-> rows[p[i]].user_id]

\* a listing that returns the groups of every membership row
get_groups_unfiltered(groups, members, user_id) ==
    {[group_id |-> members[i].group_id,
      name |-> groups[members[i].group_id].name,
      avatar |-> groups[members[i].group_id].avatar,
      member_count |-> Cardinality({j \in DOMAIN members :
                                       members[j].group_id = members[i].group_id})] :
        i \in {j \in DOMAIN members : members[j].group_id \in DOMAIN groups}}

\* GET /api/groups: the groups joined with the membership rows of user_id
get_groups(groups, members, user_id) ==
    {[group_id |-> members[i].group_id,
      name |-> groups[members[i].group_id].name,
      avatar |-> groups[members[i].group_id].avatar,
      member_count |-> Cardinality({j \in DOMAIN members :
                                       members[j].group_id = members[i].group_id})] :
        i \in {j \in DOMAIN members :
                 members[j].user_id = user_id /\ members[j].group_id \in DOMAIN groups}}

\* POST /api/groups: a fresh group_id, INSERT the group row, the creator's
\* row when the creator has a key, then the loop over member_ids; the commit
\* follows the loop
CreateGroup(h, user_id, name, member_ids, encrypted_keys, unique) ==
    /\ pc[h] = "idle"
    /\ budget.groups > 0
    /\ budget' = [budget EXCEPT !.groups = @ - 1]
    /\ LET group_id == Len(group_calls) + 1
           rows == IF user_id \in DOMAIN encrypted_keys
                   THEN <<MemberRow(group_id, user_id, encrypted_keys[user_id])>>
                   ELSE <<>>
       IN  /\ group_calls' = Append(group_calls,
                                    [user_id |-> user_id, name |-> name,
                                     member_ids |-> member_ids,
                                     encrypted_keys |-> encrypted_keys])
           /\ Resume(h, "create_group",
                     Run(<<CreateFrame(group_id, name, user_id, member_ids,
                                       encrypted_keys, rows, unique)>>,
                         active_connections, Len(owner)))
    /\ UNCHANGED <<data, active_connections, is_online, messages, blocked_users, owner,
                   client, received, group_messages, inserted, disconnect_runs,
                   connect_contacts>>

\* POST /api/groups/{group_id}/messages: INSERT, commit, select the other
\* members, then push group_message to each
SendGroupMessage(h, group_id, user_id, encrypted_content) ==
    /\ pc[h] = "idle"
    /\ budget.gmsgs > 0
    /\ budget' = [budget EXCEPT !.gmsgs = @ - 1]
    /\ LET message_id == Len(group_messages) + 1
           members == MembersExcept(group_members, group_id, user_id)
       IN  /\ group_messages' = Append(group_messages,
                                       [group_id |-> group_id, sender_id |-> user_id,
                                        encrypted_content |-> encrypted_content])
           /\ \E p \in Perms(DOMAIN members) :
                  Resume(h, "send_group_message",
                         Run(<<FanoutFrame(GroupMessageEvent(group_id, message_id),
                                           InOrder(members, p))>>,
                             active_connections, Len(owner)))
    /\ UNCHANGED <<data, active_connections, is_online, messages, blocked_users, owner,
                   client, received, group_calls, inserted, disconnect_runs,
                   connect_contacts>>

Next ==
    \/ \E c \in Conns, u \in Users : Connect(c, u)
    \/ \E c \in Conns : ClientClose(c)
    \/ \E t \in Tasks : SendOk(t)
    \/ \E t \in Tasks : SendFail(t)
    \/ \E c \in Conns : SendRaiseDisconnect(c)
    \/ \E t \in Tasks : SendRaiseUncaught(t)
    \/ \E c \in Conns : ReceivePing(c)
    \/ \E c \in Conns, s \in Users : ReceiveRead(c, s)
    \/ \E c \in Conns : ReceiveMalformed(c)
    \/ \E c \in Conns : ReceiveDisconnect(c)
    \/ \E h \in Https, p \in DirectPairs : SendMessageBlocked(h, p[1], p[2])
    \/ \E h \in Https, p \in DirectPairs, ec \in ForRecipient, efs \in ForSender,
          reply \in {NULL} \cup (1..Len(inserted)), dm \in DeleteModes,
          ts \in {LastCreatedAt, LastCreatedAt + 1} \ {0} :
          SendMessage(h, p[1], p[2], ec, efs, reply, dm, ts)
    \/ \E p \in DirectPairs : DeleteMessages(p[1], p[2])
    \/ \E h \in Https, u \in GroupCreators, n \in GroupNames, ml \in MemberLists,
          ks \in KeySets, k \in GroupKeys, unique \in BOOLEAN :
          CreateGroup(h, u, n, ml, [m \in ks |-> k], unique)
    \/ \E h \in Https, g \in 1..Len(group_calls), u \in Users, ec \in GroupCiphertexts :
          SendGroupMessage(h, g, u, ec)

Spec == Init /\ [][Next]_vars

TypeOK ==
    /\ DOMAIN active_connections \subseteq Users
    /\ \A u \in DOMAIN active_connections : active_connections[u] \in DOMAIN owner
    /\ Len(owner) = Len(client)
    /\ \A t \in Tasks : (stack[t] # <<>>) => Top(stack[t]).fn \in {"send_to_user", "send_json"}

\* ================================================================== claims
\* websocket c is superseded once n websockets are accepted: a later one of
\* them belongs to the same user
Superseded(c, n) == \E d \in (c + 1)..n : owner[d] = owner[c]

\* the pending calls of all tasks
Frames == UNION {{stack[t][i] : i \in DOMAIN stack[t]} : t \in Tasks}
\* the pushes (send_to_user) that have started and not yet completed
Pushes == {f \in Frames : f.fn = "send_to_user"}

\* the websocket user u registered last, 0 without one
Latest(u) ==
    IF \E c \in DOMAIN owner : owner[c] = u
    THEN CHOOSE c \in DOMAIN owner :
             owner[c] = u /\ \A d \in DOMAIN owner : owner[d] = u => d <= c
    ELSE 0

\* ------------------------------------------------------------------- C1
C1_Registry ==
    /\ \A u \in DOMAIN active_connections :
           /\ owner[active_connections[u]] = u
           /\ ~Superseded(active_connections[u], Len(owner))
    /\ \A f \in Pushes : owner[f.ws] = f.user_id /\ ~Superseded(f.ws, f.at)

C1_Step ==
    /\ Len(owner') > Len(owner) =>
           /\ owner'[Len(owner')] \in DOMAIN active_connections'
           /\ active_connections'[owner'[Len(owner')]] = Len(owner')
    /\ \A c \in Conns :
           (received'[c] # received[c] /\ received'[c][Len(received'[c])].type # "pong")
               => \E f \in Pushes : f.ws = c /\ ~Superseded(c, f.at)

\* C1: when a user registers a second websocket, the registry entry of the
\* user is the second one: the registry never holds a superseded websocket,
\* every push that starts afterwards is attempted on the websocket registered
\* last, and no such push delivers an event on a superseded websocket.
C1_SecondRegistrationWins == [](C1_Registry) /\ [][C1_Step]_vars

\* a user has registered twice and an event pushed after the second
\* registration has been delivered on the second websocket
C1_Witness ==
    \E c \in DOMAIN owner :
        /\ Superseded(c, Len(owner))
        /\ \E d \in DOMAIN owner :
               /\ d > c /\ owner[d] = owner[c]
               /\ owner[c] \in DOMAIN active_connections
               /\ active_connections[owner[c]] = d
               /\ \E i \in DOMAIN received[d] : received[d][i].type = "new_message"

\* ------------------------------------------------------------------- C2
\* C2: as long as the websocket a user registered last is still open, the
\* registry maps the user to it (closing an older websocket of the user does
\* not remove the newer session).
C2_NewerSessionKept ==
    \A u \in Users :
        (Latest(u) # 0 /\ client[Latest(u)] = "open")
            => (u \in DOMAIN active_connections /\ active_connections[u] = Latest(u))

\* ------------------------------------------------------------------- C3
\* C3: the disconnect path (registry removal, offline flag, user_offline
\* broadcast) runs at most once for a websocket, also when both its own
\* handler and a failed push of another task detect that it closed.
C3_DisconnectOnce == \A c \in Conns : disconnect_runs[c] <= 1

\* ------------------------------------------------------------------- C4
\* the recipient of request r blocks its sender
RequestBlocked(r) == <<r.recipient_id, r.sender_id>> \in blocked_users

\* C4: a direct-message send whose recipient does not block the sender never
\* ends in an error: its row is persisted under the id the response carries,
\* and once the request is no longer waiting for its push the response is ok,
\* whatever became of the delivery.
C4_SendSucceeds ==
    \A h \in Https :
        (resp[h].status # "none" /\ ~RequestBlocked(resp[h])) =>
            /\ resp[h].status \in {"pending", "ok"}
            /\ (resp[h].status = "ok") <=> (pc[h] = "idle")
            /\ resp[h].message_id \in DOMAIN inserted
            /\ inserted[resp[h].message_id].sender_id = resp[h].sender_id
            /\ inserted[resp[h].message_id].recipient_id = resp[h].recipient_id

\* a send has returned ok although the push to the recipient's websocket
\* failed: the websocket was disconnected by the push (its own handler has
\* not noticed yet) and no new_message was delivered on it
C4_Witness ==
    \E h \in Https, c \in DOMAIN owner :
        /\ resp[h].status = "ok"
        /\ owner[c] = resp[h].recipient_id
        /\ pc[c] = "receive"
        /\ disconnect_runs[c] = 1
        /\ \A i \in DOMAIN received[c] : received[c][i].type # "new_message"

\* ------------------------------------------------------------------- C5
C5_State ==
    /\ \A i \in DOMAIN inserted :
           <<inserted[i].recipient_id, inserted[i].sender_id>> \notin blocked_users
    /\ \A h \in Https :
           (resp[h].status # "none" /\ RequestBlocked(resp[h])) =>
               (resp[h].status = "403" /\ pc[h] = "idle" /\ stack[h] = <<>>)
    /\ \A f \in Pushes :
           f.message.type = "new_message" =>
               <<f.user_id, f.message.data.sender_id>> \notin blocked_users
    /\ \A c \in DOMAIN owner : \A i \in DOMAIN received[c] :
           received[c][i].type = "new_message" =>
               <<owner[c], received[c][i].data.sender_id>> \notin blocked_users

C5_Step ==
    \A h \in Https :
        (resp'[h] # resp[h] /\ RequestBlocked(resp'[h])) =>
            /\ messages' = messages
            /\ inserted' = inserted
            /\ received' = received
            /\ stack' = stack

\* C5: a direct message whose recipient blocks the sender is answered with
\* 403 (Blocked), the step leaves the message store as it was, and no
\* new_message event for it is started or delivered.
C5_BlockedSendRejected == [](C5_State) /\ [][C5_Step]_vars

\* a blocked send was rejected while its recipient had a registered session
C5_Witness ==
    \E h \in Https :
        /\ resp[h].status = "403"
        /\ resp[h].recipient_id \in DOMAIN active_connections

\* ------------------------------------------------------------------- C6
\* event e for user u is the new_message event of a committed row of u
CommittedFor(e, u) ==
    /\ DOMAIN e.data = {"message_id", "sender_id", "encrypted_content"}
    /\ e.data.message_id \in DOMAIN inserted
    /\ inserted[e.data.message_id].recipient_id = u
    /\ inserted[e.data.message_id].sender_id = e.data.sender_id
    /\ inserted[e.data.message_id].encrypted_content = e.data.encrypted_content
    /\ e.data.encrypted_content \in ForRecipient

\* C6: every new_message event that is being pushed or has been delivered
\* names a row that was committed before with the channel's user as its
\* recipient, and carries that row's sender id and the recipient's
\* ciphertext.
C6_PushAfterCommit ==
    /\ \A f \in Pushes :
           f.message.type = "new_message" => CommittedFor(f.message, f.user_id)
    /\ \A c \in DOMAIN owner : \A i \in DOMAIN received[c] :
           received[c][i].type = "new_message" => CommittedFor(received[c][i], owner[c])

\* a new_message event has been delivered
C6_Witness ==
    \E c \in DOMAIN owner : \E i \in DOMAIN received[c] :
        received[c][i].type = "new_message"

\* ------------------------------------------------------------------- C7
Last(seq) == seq[Len(seq)]
Range(seq) == {seq[i] : i \in DOMAIN seq}

\* in this step handler c has received a read event that names sender s
ReadStep(c, s) ==
    /\ Len(data'[c]) = Len(data[c]) + 1
    /\ Last(data'[c]) = [type |-> "read", data |-> [sender_id |-> s]]

C7_Step ==
    /\ \A i \in DOMAIN messages \cap DOMAIN messages' :
           /\ [messages'[i] EXCEPT !.is_read = messages[i].is_read] = messages[i]
           /\ messages[i].is_read => messages'[i].is_read
           /\ messages'[i].is_read # messages[i].is_read =>
                  \E c \in DOMAIN owner :
                      /\ owner[c] = messages[i].recipient_id
                      /\ ReadStep(c, messages[i].sender_id)
    /\ \A i \in DOMAIN messages' \ DOMAIN messages :
           /\ i > Len(inserted)
           /\ messages'[i].is_read = FALSE

\* C7: in every step, each stored direct message that stays in the store
\* keeps all its fields, except that is_read may go from false to true, and
\* then the step is the message's recipient receiving a read event that names
\* the message's sender; a new row gets a fresh id and starts unread.
C7_MessagesImmutable == [][C7_Step]_vars

\* some stored message has been marked read
C7_Witness == \E i \in DOMAIN messages : messages[i].is_read

\* ------------------------------------------------------------------- C8
\* msgs has an unread row from s to r
HasUnread(msgs, s, r) ==
    \E i \in DOMAIN msgs :
        msgs[i].sender_id = s /\ msgs[i].recipient_id = r /\ ~msgs[i].is_read

C8_State ==
    \A s \in Users, r \in Users :
        /\ MarkRead(MarkRead(messages, s, r), s, r) = MarkRead(messages, s, r)
        /\ ~HasUnread(messages, s, r) => MarkRead(messages, s, r) = messages

C8_Step ==
    \A c \in DOMAIN owner, s \in Users :
        ReadStep(c, s) =>
            /\ ~HasUnread(messages', s, owner[c])
            /\ MarkRead(messages', s, owner[c]) = messages'
            /\ ~HasUnread(messages, s, owner[c]) => messages' = messages

\* C8: markRead is idempotent on every store the program reaches: a second
\* application changes nothing, right after a read event the store is a
\* fixed point of the same markRead, and without an unread row from the
\* sender to the recipient it leaves the store as it is.
C8_MarkReadIdempotent == [](C8_State) /\ [][C8_Step]_vars

\* the store holds a row that was marked read and a row that is unread
C8_Witness ==
    \E i \in DOMAIN messages, j \in DOMAIN messages :
        messages[i].is_read /\ ~messages[j].is_read

\* ------------------------------------------------------------------- C9
ReadReceipt(reader) == [type |-> "messages_read", data |-> [reader_id |-> reader]]

C9_Step ==
    /\ \A c \in DOMAIN owner, s \in Users :
           ReadStep(c, s) =>
               /\ DOMAIN messages' = DOMAIN messages
               /\ \A i \in DOMAIN messages :
                      IF messages[i].sender_id = s /\ messages[i].recipient_id = owner[c]
                      THEN messages'[i].is_read
                      ELSE messages'[i] = messages[i]
               /\ IF s \in DOMAIN active_connections
                  THEN /\ pc'[c] = "read"
                       /\ Len(stack'[c]) = 1
                       /\ stack'[c][1].fn = "send_to_user"
                       /\ stack'[c][1].user_id = s
                       /\ stack'[c][1].ws = active_connections[s]
                       /\ stack'[c][1].message = ReadReceipt(owner[c])
                  ELSE pc'[c] = "receive" /\ stack'[c] = <<>>
    /\ \A c \in DOMAIN owner :
           (/\ pc[c] = "read"
            /\ stack'[c] # stack[c]
            /\ Top(stack[c]).message = ReadReceipt(owner[c])
            /\ client[Top(stack[c]).ws] = "open")
               => received'[Top(stack[c]).ws] =
                      Append(received[Top(stack[c]).ws], ReadReceipt(owner[c]))

C9_State ==
    /\ \A f \in Pushes :
           f.message.type = "messages_read" =>
               \E c \in DOMAIN owner :
                   /\ owner[c] = f.message.data.reader_id
                   /\ [type |-> "read", data |-> [sender_id |-> f.user_id]] \in Range(data[c])
    /\ \A d \in DOMAIN owner : \A i \in DOMAIN received[d] :
           received[d][i].type = "messages_read" =>
               \E c \in DOMAIN owner :
                   /\ owner[c] = received[d][i].data.reader_id
                   /\ [type |-> "read", data |-> [sender_id |-> owner[d]]] \in Range(data[c])

\* C9: the step in which reader R receives a read event naming S marks every
\* message from S to R read and leaves every other row as it was, and only
\* then starts the push of messages_read{reader_id: R}; the push is made on
\* S's registered websocket when S has one (and is delivered when that
\* websocket is open) and is not made otherwise; nobody else gets the event.
C9_ReadReceipt == [](C9_State) /\ [][C9_Step]_vars

\* S has received messages_read from R and holds a read message to R
C9_Witness ==
    \E d \in DOMAIN owner : \E i \in DOMAIN received[d] :
        /\ received[d][i].type = "messages_read"
        /\ \E k \in DOMAIN messages :
               /\ messages[k].sender_id = owner[d]
               /\ messages[k].recipient_id = received[d][i].data.reader_id
               /\ messages[k].is_read

\* ------------------------------------------------------------------ C10
\* the users that share a direct message with u in the store msgs
Counterparts(msgs, u) ==
    {p \in Users : \E i \in DOMAIN msgs :
        \/ msgs[i].sender_id = u /\ msgs[i].recipient_id = p
        \/ msgs[i].sender_id = p /\ msgs[i].recipient_id = u}

\* users u and p have exchanged a direct message at some time
EverExchanged(u, p) ==
    \E i \in DOMAIN inserted :
        \/ inserted[i].sender_id = u /\ inserted[i].recipient_id = p
        \/ inserted[i].sender_id = p /\ inserted[i].recipient_id = u

\* the contacts the user_online broadcast at the bottom of stk has yet to visit
OnlineRemaining(stk) ==
    IF stk # <<>> /\ stk[1].fn = "broadcast_status" /\ stk[1].message.type = "user_online"
    THEN Range(stk[1].contacts)
    ELSE {}

IsPresence(e) == e.type \in {"user_online", "user_offline"}

C10_State ==
    /\ \A c \in DOMAIN owner :
           /\ Cardinality(Range(online_attempts[c])) = Len(online_attempts[c])
           /\ Range(online_attempts[c]) \subseteq connect_contacts[c]
           /\ pc[c] # "connect" => OnlineRemaining(stack[c]) = {}
    /\ \A f \in Pushes :
           IsPresence(f.message) => EverExchanged(f.message.data.user_id, f.user_id)
    /\ \A d \in DOMAIN owner : \A i \in DOMAIN received[d] :
           IsPresence(received[d][i]) =>
               EverExchanged(received[d][i].data.user_id, owner[d])

C10_Step ==
    \A c \in Conns :
        LET before == IF pc[c] = "connecting"
                      THEN (IF pc'[c] # "connecting" THEN connect_contacts'[c] ELSE {})
                      ELSE IF pc[c] = "connect" THEN OnlineRemaining(stack[c]) ELSE {}
            after  == IF pc'[c] = "connect" THEN OnlineRemaining(stack'[c]) ELSE {}
            visited == before \ after
            started == IF online_attempts'[c] # online_attempts[c]
                       THEN {Last(online_attempts'[c])} ELSE {}
        IN  /\ (pc[c] = "connecting" /\ pc'[c] # "connecting") =>
                   connect_contacts'[c] = Counterparts(messages, owner'[c])
            /\ after \subseteq before
            /\ started \subseteq visited
            /\ \A p \in visited : (p \in DOMAIN active_connections') <=> (p \in started)
            /\ online_attempts'[c] # online_attempts[c] =>
                   /\ online_attempts'[c] = Append(online_attempts[c], Last(online_attempts'[c]))
                   /\ Top(stack'[c]).fn = "send_to_user"
                   /\ Top(stack'[c]).user_id = Last(online_attempts'[c])
                   /\ Top(stack'[c]).ws = active_connections'[Last(online_attempts'[c])]
                   /\ Top(stack'[c]).message =
                          [type |-> "user_online", data |-> [user_id |-> owner'[c]]]
            /\ pc[c] = "connect" => pc'[c] \in {"connect", "receive"}
            /\ (pc[c] = "connecting" /\ pc'[c] # "connecting") => pc'[c] \in {"connect", "receive"}

\* C10: the connect of user U queries the distinct counterparts of U's
\* direct messages and visits each once: a counterpart that has a registry
\* entry when it is visited gets exactly one user_online push, one without an
\* entry gets none, the connect never ends in an error, and a presence event
\* about U only ever goes to a user who has exchanged a message with U.
C10_OnlineBroadcast == [](C10_State) /\ [][C10_Step]_vars

\* a connect has finished after exactly one user_online push, and the
\* counterpart it was addressed to has received it
C10_Witness ==
    \E c \in DOMAIN owner, d \in DOMAIN owner :
        /\ pc[c] = "receive"
        /\ Len(online_attempts[c]) = 1
        /\ owner[d] = online_attempts[c][1]
        /\ [type |-> "user_online", data |-> [user_id |-> owner[c]]] \in Range(received[d])

\* ------------------------------------------------------------------ C11
\* in this step the pending send_json of task t's push fails
PushFails(t) ==
    /\ stack[t] # <<>>
    /\ Top(stack[t]).fn = "send_to_user"
    /\ client[Top(stack[t]).ws] = "closed"
    /\ stack'[t] # stack[t]

C11_Step ==
    \A t \in Tasks :
        PushFails(t) =>
            LET f == Top(stack[t])
            IN  /\ ~(f.user_id \in DOMAIN active_connections' /\
                     active_connections'[f.user_id] = f.ws)
                /\ is_online'[f.user_id] = FALSE
                /\ \A u \in DOMAIN active_connections :
                       (u \notin DOMAIN active_connections' \/
                        active_connections'[u] # active_connections[u])
                           => active_connections[u] = f.ws

\* C11: a push whose delivery fails is handled as a disconnect of the
\* session it was made on: after the step the failed websocket is not the
\* registry entry of its user and the user's online flag is false, and the
\* step removes no registry entry other than the failed websocket.
C11_FailedPushDisconnects == [][C11_Step]_vars

\* ------------------------------------------------------------------ C12
\* the user task t addresses in this step, "" when the step starts no push
\* of a request or handler
Addressed(t) ==
    IF t \in Https
    THEN (IF pc[t] = "idle" /\ inserted' # inserted THEN Last(inserted').recipient_id ELSE "")
    ELSE IF t \in DOMAIN owner /\ Len(data'[t]) > Len(data[t]) /\ Last(data'[t]).type = "read"
         THEN Last(data'[t]).data.sender_id
         ELSE ""

C12_State ==
    \A f \in Pushes : f.ws <= f.at /\ owner[f.ws] = f.user_id

C12_Step ==
    /\ \A t \in Tasks :
           (Addressed(t) # "" /\ Addressed(t) \notin DOMAIN active_connections) =>
               /\ stack'[t] = <<>>
               /\ pc'[t] \in {"idle", "receive"}
               /\ active_connections' = active_connections
               /\ is_online' = is_online
               /\ received' = received
               /\ \A i \in DOMAIN messages : i \in DOMAIN messages'
    /\ \A c \in Conns :
           received'[c] # received[c] =>
               \E t \in Tasks :
                   /\ stack[t] # <<>>
                   /\ Top(stack[t]).ws = c
                   /\ Top(stack[t]).at >= c
                   /\ received'[c] = Append(received[c], Top(stack[t]).message)

\* C12: a push to a user without a registry entry returns at once and
\* leaves the registry, the online flags, the stored rows and every channel
\* as they were; an event is only ever delivered by a send that was started
\* on a websocket registered before the push began, so a session registered
\* later never receives an event pushed before its registration.
C12_DroppedPush == [](C12_State) /\ [][C12_Step]_vars

\* a message was sent to a user without a session, the user has registered
\* since, and the open session has received nothing
C12_Witness ==
    \E c \in DOMAIN owner, i \in DOMAIN inserted :
        /\ Len(owner) = 1
        /\ inserted[i].recipient_id = owner[c]
        /\ pc[c] = "receive"
        /\ client[c] = "open"
        /\ disconnect_runs[c] = 0
        /\ received[c] = <<>>
        /\ \A t \in Tasks : stack[t] = <<>>

\* ------------------------------------------------------------------ C13
\* the create_group call that was given group_id g is still running
Creating(g) ==
    \E t \in Tasks :
        stack[t] # <<>> /\ stack[t][1].fn = "create_group" /\ stack[t][1].group_id = g

\* the users with a committed membership row of group g
MembersOf(g) ==
    {group_members[i].user_id : i \in {j \in DOMAIN group_members :
                                         group_members[j].group_id = g}}

\* the users the request that created group g asked for and gave a key
Keyed(g) ==
    ({group_calls[g].user_id} \cup Range(group_calls[g].member_ids))
        \cap DOMAIN group_calls[g].encrypted_keys

\* member_ids of the request for group g lists some user with a key twice
ListedTwice(g) ==
    \E i, j \in DOMAIN group_calls[g].member_ids :
        /\ i # j
        /\ group_calls[g].member_ids[i] = group_calls[g].member_ids[j]
        /\ group_calls[g].member_ids[i] \in DOMAIN group_calls[g].encrypted_keys

\* C13: once create_group has succeeded, the members of the group are
\* exactly the creator and the listed users that have an entry in
\* encrypted_keys, the group is in get_groups of exactly those users, and a
\* call fails only on a member listed twice, never on a member without key.
C13_MembershipIsKeyed ==
    /\ \A g \in DOMAIN chat_groups :
           /\ MembersOf(g) = Keyed(g)
           /\ \A u \in Users :
                  (\E r \in get_groups(chat_groups, group_members, u) : r.group_id = g)
                      <=> u \in Keyed(g)
    /\ \A g \in DOMAIN group_calls :
           (g \notin DOMAIN chat_groups /\ ~Creating(g)) => ListedTwice(g)
    /\ \A i \in DOMAIN group_members : group_members[i].group_id \in DOMAIN chat_groups

\* a group was created by a creator with a key from a list that names a user
\* without a key, and that user is not a member
C13_Witness ==
    \E g \in DOMAIN chat_groups :
        /\ group_calls[g].user_id \in MembersOf(g)
        /\ \E m \in Range(group_calls[g].member_ids) :
               /\ m \notin DOMAIN group_calls[g].encrypted_keys
               /\ m \notin MembersOf(g)
               /\ get_groups(chat_groups, group_members, m) = {}
        /\ \E m \in Range(group_calls[g].member_ids) :
               m # group_calls[g].user_id /\ m \in MembersOf(g)

\* ------------------------------------------------------------------ C14
\* C14: every group row of the store has a membership row for the user
\* that created the group.
C14_CreatorIsMember ==
    \A g \in DOMAIN chat_groups : chat_groups[g].created_by \in MembersOf(g)

\* ------------------------------------------------------------------ C15
\* the positions of message i in the listing L
PositionsIn(L, i) == {k \in DOMAIN L : L[k].id = i}

\* the two fetches of the conversation of message row m, one per participant
ListingsOf(m) ==
    get_messages(messages, m.recipient_id, m.sender_id)
        \X get_messages(messages, m.sender_id, m.recipient_id)

Tied(i) ==
    \E j \in DOMAIN messages \ {i} :
        /\ {messages[j].sender_id, messages[j].recipient_id} =
               {messages[i].sender_id, messages[i].recipient_id}
        /\ messages[j].created_at = messages[i].created_at

C15_State ==
    \A i \in DOMAIN messages :
        \A LL \in ListingsOf(messages[i]) :
            /\ Cardinality(PositionsIn(LL[1], i)) = 1
            /\ Cardinality(PositionsIn(LL[2], i)) = 1
            /\ \A k \in PositionsIn(LL[1], i), l \in PositionsIn(LL[2], i) :
                   /\ LL[1][k] = LL[2][l]
                   /\ LL[1][k].sender_id = inserted[i].sender_id
                   /\ LL[1][k].recipient_id = inserted[i].recipient_id
                   /\ LL[1][k].encrypted_content = inserted[i].encrypted_content
                   /\ LL[1][k].encrypted_for_sender = inserted[i].encrypted_for_sender
                   /\ ~Tied(i) => k = l
            /\ Range(LL[1]) = Range(LL[2])
            /\ \A n \in 1..2 : \A j, k \in DOMAIN LL[n] :
                   j < k => LL[n][j].created_at[2] <= LL[n][k].created_at[2]

C15_Step ==
    \A h \in Https :
        (pc[h] = "idle" /\ inserted' # inserted /\ resp'[h] # resp[h]) =>
            /\ resp'[h].message_id \in DOMAIN messages'
            /\ \A i \in DOMAIN inserted : resp'[h].message_id > i
            /\ \A g \in Https : resp'[h].message_id > resp[g].message_id

Phase(label) ==
    CASE label = "connecting" -> 0
      [] label \in {"closed", "crashed"} -> 2
      [] OTHER -> 1

C16_State ==
    \A c \in DOMAIN owner :
        Phase(pc[c]) = 2 => \A u \in DOMAIN active_connections : active_connections[u] # c

C16_Step ==
    \A c \in Conns :
        /\ Phase(pc'[c]) >= Phase(pc[c])
        /\ Phase(pc'[c]) <= Phase(pc[c]) + 1
        /\ Phase(pc[c]) = 2 => \A f \in Pushes' \ Pushes : f.ws # c

\* C16: a connection only moves Connecting -> Open -> Closed; once its
\* handler has ended, its websocket is not the registry entry of any user
\* and no push is started on it.
C16_ClosedIsTerminal == [](C16_State) /\ [][C16_Step]_vars

\* ------------------------------------------------------------------ C17
\* event e, pushed to or received by user u, is the group_message event of a
\* committed group message that another user sent to a group u is a member of
GroupEventFor(e, u) ==
    /\ e.data.message_id \in DOMAIN group_messages
    /\ group_messages[e.data.message_id].group_id = e.data.group_id
    /\ group_messages[e.data.message_id].sender_id # u
    /\ u \in MembersOf(e.data.group_id)

C17_State ==
    /\ \A f \in Pushes :
           f.message.type = "group_message" => GroupEventFor(f.message, f.user_id)
    /\ \A d \in DOMAIN owner : \A i \in DOMAIN received[d] :
           received[d][i].type = "group_message" => GroupEventFor(received[d][i], owner[d])

Count(seq, u) == Cardinality({i \in DOMAIN seq : seq[i] = u})

\* the number of membership rows of user u in group g
RowsOf(g, u) ==
    Cardinality({i \in DOMAIN group_members :
                    group_members[i].group_id = g /\ group_members[i].user_id = u})

\* request h is in its loop over the members of a group
FanningOut(stk) == stk # <<>> /\ stk[1].fn = "send_group_message"

C17_Step ==
    \A h \in Https :
        LET begins == /\ pc[h] = "idle"
                      /\ group_messages' # group_messages
                      /\ (FanningOut(stack'[h]) \/ stack' = stack)
            row    == Last(group_messages')
            event  == IF begins
                      THEN [type |-> "group_message",
                            data |-> [group_id |-> row.group_id,
                                      message_id |-> Len(group_messages')]]
                      ELSE stack[h][1].message
            sender == group_messages'[event.data.message_id].sender_id
            before(u) == IF begins
                         THEN (IF u = sender THEN 0 ELSE RowsOf(row.group_id, u))
                         ELSE Count(stack[h][1].contacts, u)
            after(u)  == IF FanningOut(stack'[h]) THEN Count(stack'[h][1].contacts, u) ELSE 0
            pushed == /\ stack'[h] # stack[h]
                      /\ FanningOut(stack'[h])
                      /\ Len(stack'[h]) = 2
        IN  (begins \/ FanningOut(stack[h])) =>
                /\ \A u \in Users : after(u) <= before(u)
                /\ pushed =>
                       /\ stack'[h][2].fn = "send_to_user"
                       /\ stack'[h][2].message = event
                       /\ stack'[h][2].user_id # sender
                       /\ stack'[h][2].user_id \in DOMAIN active_connections'
                       /\ stack'[h][2].ws = active_connections'[stack'[h][2].user_id]
                       /\ before(stack'[h][2].user_id) - after(stack'[h][2].user_id) = 1
                /\ \A u \in Users :
                       (before(u) > after(u) /\ ~(pushed /\ u = stack'[h][2].user_id))
                           => u \notin DOMAIN active_connections'

\* C17: send_group_message commits the row and then visits every
\* membership row of the group other than the sender's: a member that has a
\* registry entry when it is visited gets a push of group_message{group_id,
\* message_id} on its registered websocket, a member without one gets none;
\* every group_message event pushed or delivered names a committed message
\* of a group the receiver is a member of and did not send.
C17_GroupFanout == [](C17_State) /\ [][C17_Step]_vars

\* a member has received the group_message of a message whose sender is a
\* member of the group with a session of its own
C17_Witness ==
    \E d \in DOMAIN owner : \E i \in DOMAIN received[d] :
        /\ received[d][i].type = "group_message"
        /\ LET m == group_messages[received[d][i].data.message_id]
           IN  /\ m.sender_id \in MembersOf(m.group_id)
               /\ m.sender_id \in DOMAIN active_connections
               /\ client[active_connections[m.sender_id]] = "open"

\* ------------------------------------------------------------------ C18
\* C18: the reply_to_id of every stored message is NULL or the id of a
\* stored message; fetched, a reply carries the sender and both ciphertexts
\* of the message it replies to, and a message that is no reply carries NULL
\* in the three reply fields.
C18_ReplyTargets ==
    \A i \in DOMAIN messages :
        /\ messages[i].reply_to_id = NULL \/ messages[i].reply_to_id \in DOMAIN messages
        /\ \A L \in get_messages(messages, messages[i].recipient_id, messages[i].sender_id) :
               \A k \in PositionsIn(L, i) :
                   IF messages[i].reply_to_id = NULL
                   THEN /\ L[k].reply_sender_id = NULL
                        /\ L[k].reply_encrypted_content = NULL
                        /\ L[k].reply_encrypted_for_sender = NULL
                   ELSE LET X == inserted[messages[i].reply_to_id]
                        IN  /\ L[k].reply_sender_id = X.sender_id
                            /\ L[k].reply_encrypted_content = X.encrypted_content
                            /\ L[k].reply_encrypted_for_sender = X.encrypted_for_sender

\* ------------------------------------------------------------------ C19
\* C19: in every state, that is at every point where another task can run,
\* the is_online flag of a user is TRUE exactly when the user has an entry
\* in the connection registry.
C19_FlagMatchesRegistry ==
    \A u \in Users : is_online[u] <=> u \in DOMAIN active_connections

\* one user is registered and online while another, who had a session, has
\* been disconnected and is offline
C19_Witness ==
    \E u \in Users, c \in DOMAIN owner :
        /\ u \in DOMAIN active_connections /\ is_online[u]
        /\ owner[c] # u
        /\ disconnect_runs[c] > 0
        /\ owner[c] \notin DOMAIN active_connections /\ ~is_online[owner[c]]

\* ------------------------------------------------------------------ C20
\* A bound on the sends one push can cause while r users are registered:
\* the send itself and, should it fail, a push to each contact of the user,
\* made while one user fewer is registered.
SendsBound[r \in 0..Cardinality(Users)] ==
    IF r = 0 THEN 0 ELSE 1 + Cardinality(Users) * SendsBound[r - 1]

\* the sends frame f can still cause while the users in R are registered
FrameBound(f, R) ==
    IF f.fn \in {"send_to_user", "send_json"}
    THEN 1 + Cardinality(Users) * SendsBound[Cardinality(R \ {f.user_id})]
    ELSE LET todo == IF f.fn = "create_group" THEN f.member_ids ELSE f.contacts
         IN  Cardinality({i \in DOMAIN todo : todo[i] \in R}) * SendsBound[Cardinality(R)]

\* the sends the pending calls stk can still cause
RECURSIVE WorkLeft(_, _)
WorkLeft(stk, R) ==
    IF stk = <<>> THEN 0 ELSE FrameBound(Top(stk), R) + WorkLeft(Pop(stk), R)

C20_Step ==
    Len(owner') = Len(owner) =>
        \A t \in Tasks :
            LET left  == WorkLeft(stack[t], DOMAIN active_connections)
                left2 == WorkLeft(stack'[t], DOMAIN active_connections')
            IN  /\ stack'[t] = stack[t] => left2 <= left
                /\ (stack'[t] # stack[t] /\ stack[t] # <<>>) => left2 < left

\* C20: every push terminates.  The work a task's pending calls can still
\* cause is a natural number that gets smaller with every step in which the
\* task resumes (a completed send, a failed send with its disconnect and
\* user_offline broadcast) and never grows in a step of another task, as
\* long as no new session is registered: the failed send unregisters the
\* user before the broadcast, so the broadcast can only reach fewer users.
C20_PushTerminates == [][C20_Step]_vars

\* a push has run through a cascade over two users that are contacts of
\* each other and whose channels were both dead: both were disconnected by
\* failed sends while their own handlers have not noticed, and the request
\* has returned
C20_Witness ==
    \E c, d \in DOMAIN owner, h \in Https :
        /\ owner[c] # owner[d]
        /\ pc[c] = "receive" /\ pc[d] = "receive"
        /\ disconnect_runs[c] = 1 /\ disconnect_runs[d] = 1
        /\ resp[h].status = "ok" /\ pc[h] = "idle"
        /\ owner[d] \in Contacts(messages, owner[c])
        /\ \A t \in Tasks : stack[t] = <<>>

\* ------------------------------------------------------------------ C21
\* the presence events about user u among events, in order
PresenceAbout(events, u) ==
    SelectSeq(events, LAMBDA e : e.type \in {"user_online", "user_offline"} /\
                                 e.data.user_id = u)

\* all connect and disconnect activity of user u has completed: no task is
\* inside a broadcast or a push of a presence event about u, no push to u is
\* pending (its failure would disconnect u), and every handler of u either
\* waits for the next frame of an open websocket or has ended
Settled(u) ==
    /\ \A f \in Frames :
           f.fn # "create_group" =>
               ~(f.message.type \in {"user_online", "user_offline"} /\
                 f.message.data.user_id = u)
    /\ \A f \in Pushes : f.user_id # u
    /\ \A c \in DOMAIN owner :
           owner[c] = u =>
               \/ pc[c] = "receive" /\ client[c] = "open"
               \/ pc[c] \in {"closed", "crashed"}

\* websocket c is the one session of contact p, live during all the activity
\* of u: it was registered before u first connected and still is, its peer is
\* open, and every connect of u found p among the contacts
LiveThroughout(c, p, u) ==
    /\ owner[c] = p
    /\ \A d \in DOMAIN owner : owner[d] = p => d = c
    /\ client[c] = "open"
    /\ pc[c] = "receive"
    /\ p \in DOMAIN active_connections /\ active_connections[p] = c
    /\ \E d \in DOMAIN owner : owner[d] = u
    /\ \A d \in DOMAIN owner : owner[d] = u => (c < d /\ p \in connect_contacts[d])

\* a failed push has disconnected u: some websocket of u has more runs of
\* disconnect on its account than the one its own handler makes at its end
PushDisconnected(u) ==
    \E d \in DOMAIN owner :
        /\ owner[d] = u
        /\ disconnect_runs[d] > (IF pc[d] = "closed" THEN 1 ELSE 0)

\* C21: for a contact P with one live session throughout, once all connect
\* and disconnect activity of U has completed, a failed push on another task
\* having disconnected U at some point, the last presence event about U
\* delivered to P is user_online if U has a registry entry and user_offline
\* if it has none.
C21_LastPresenceAgrees ==
    \A u \in Users : \A p \in Users \ {u}, c \in DOMAIN owner :
        (Settled(u) /\ PushDisconnected(u) /\ LiveThroughout(c, p, u)) =>
            LET about == PresenceAbout(received[c], u)
            IN  about # <<>> =>
                    Last(about).type = IF u \in DOMAIN active_connections
                                       THEN "user_online" ELSE "user_offline"

\* ------------------------------------------------------------------ C22
\* group g and the membership row of user u in it are committed
CommittedMember(g, u) ==
    /\ g \in DOMAIN chat_groups
    /\ \E j \in DOMAIN group_members :
           group_members[j].group_id = g /\ group_members[j].user_id = u

\* C22: a group_added event has only been delivered to a user when the group
\* row and the user's membership row are committed; while create_group has
\* not committed, or after it has failed, nobody has received group_added
\* for its group.
C22_AddedAfterCommit ==
    \A c \in DOMAIN owner : \A i \in DOMAIN received[c] :
        received[c][i].type = "group_added" =>
            CommittedMember(received[c][i].data.group_id, owner[c])

====
